---- MODULE Spec2Model ----
(***************************************************************************)
(* Model of ESA_SNAP_Utils/core.py: the graph-document builder             *)
(* (_blank_graph_xml, _add_dict_into_element, _add_node) and the pipeline  *)
(* orchestrator (Sequential.__init__, Sequential.process).                 *)
(*                                                                         *)
(* An XML element is a record [tag, attrib, text, children]; attrib is a   *)
(* sequence of <<name, value>> pairs, text is <<>> (None) or <<s>>.        *)
(* A Python value is a record [kind, text, items] with kind "str", "dict", *)
(* "none" or "unconvertible" (an object whose __str__ raises).             *)
(* A dict is a sequence of [key, value] records in insertion order.        *)
(***************************************************************************)
EXTENDS Integers, Sequences, FiniteSets, TLC

\* ---------------------------------------------------------------- bounds
MaxSources == 2     \* longest tuple of sources passed to process
MaxChain   == 2     \* longest operator chain passed to Sequential(...)
MaxClock   == 2     \* microsecond readings of datetime.now()
MaxRuns    == 2     \* process invocations in one behaviour

\* ------------------------------------------------------- python values
PyStr(s)  == [kind |-> "str",  text |-> s,  items |-> <<>>]
PyDict(d) == [kind |-> "dict", text |-> "", items |-> d]
PyNone    == [kind |-> "none", text |-> "", items |-> <<>>]
PyUnconvertible == [kind |-> "unconvertible", text |-> "", items |-> <<>>]
KV(k, v)  == [key |-> k, value |-> v]

\* ------------------------------------------------------- xml elements
NoText == <<>>
Elem(tag, attrib, text, children) ==
    [tag |-> tag, attrib |-> attrib, text |-> text, children |-> children]

\* ET.SubElement(parent, ...) : the new element is attached as last child
SubElement(parent, child) == [parent EXCEPT !.children = Append(@, child)]

\* ------------------------------------------------------- collaborators
\* SnapProduct: only path and size (height, width) are read by the core
Source(i) == [cls |-> "SnapProduct", path |-> "p" \o ToString(i),
              size |-> <<i, i + 1>>]
NonSource == [cls |-> "str", path |-> "", size |-> <<0, 0>>]

boolean_parameter_parser(b) == IF b THEN "true" ELSE "false"
BEAM_DIMAP == "BEAM-DIMAP"

\* ------------------------------------------------------- descriptors
\* Read.__init__
ReadOp(product) ==
    [name |-> "Read",
     parameters |-> <<
        KV("useAdvancedOptions", PyStr(boolean_parameter_parser(FALSE))),
        KV("file", PyStr(product.path)),
        KV("copyMetadata", PyStr(boolean_parameter_parser(TRUE))),
        KV("bandNames", PyNone),
        KV("pixelRegion", PyStr("0,0," \o ToString(product.size[2]) \o ","
                                       \o ToString(product.size[1]))),
        KV("maskNames", PyNone) >>]

\* Write.__init__
WriteOp(output_path, output_format) ==
    [name |-> "Write",
     parameters |-> << KV("file", PyStr(output_path)),
                       KV("formatName", PyStr(output_format)) >>]

\* a caller-supplied Operator subclass: string, nested-mapping and None values
SubsetOp ==
    [name |-> "Subset",
     parameters |-> << KV("copyMetadata", PyStr("true")),
                       KV("region", PyDict(<< KV("x", PyStr("0")),
                                              KV("geoRegion", PyNone) >>)),
                       KV("tiePointGrids", PyNone) >>]

\* ------------------------------------------------------- graph builder
\* _blank_graph_xml
_blank_graph_xml ==
    SubElement(Elem("graph", << <<"id", "Graph">> >>, NoText, <<>>),
               Elem("version", <<>>, <<"1.0">>, <<>>))

\* _add_dict_into_element: the sub element is created and attached first,
\* then filled according to the type of the value
RECURSIVE _add_dict_into_element(_, _)
_add_dict_into_element(element, dict_) ==
    IF dict_ = <<>> THEN element
    ELSE LET key == Head(dict_).key
             val == Head(dict_).value
             sub_element == Elem(key, <<>>, NoText, <<>>)
             filled == IF val.kind = "str"
                         THEN [sub_element EXCEPT !.text = <<val.text>>]
                       ELSE IF val.kind = "dict"
                         THEN _add_dict_into_element(sub_element, val.items)
                       ELSE sub_element
         IN _add_dict_into_element(SubElement(element, filled), Tail(dict_))

\* suffix of the idx-th (0-based) source reference, _add_node line 229
SourceSuffix_Always(idx) == "." \o ToString(idx)
SourceSuffix(idx) == IF idx # 0 THEN "." \o ToString(idx) ELSE ""

\* last_node_id: a str, a list of str, or None
IdStr(s)  == [kind |-> "str",  ids |-> <<s>>]
IdList(l) == [kind |-> "list", ids |-> l]
IdNone    == [kind |-> "none", ids |-> <<>>]

\* the children of the sources element, _add_node lines 223-235
SourceElements(last_node_id) ==
    IF last_node_id.kind = "str"
      THEN << Elem("sourceProduct", << <<"refid", last_node_id.ids[1]>> >>,
                   NoText, <<>>) >>
    ELSE IF last_node_id.kind = "list"
      THEN [i \in 1..Len(last_node_id.ids) |->
              Elem("sourceProduct" \o SourceSuffix(i - 1),
                   << <<"refid", last_node_id.ids[i]>> >>, NoText, <<>>)]
    ELSE <<>>

\* _add_node: no check of node_id against the ids already in root
_add_node(root_, node_id, operator, last_node_id) ==
    SubElement(root_,
        Elem("node", << <<"id", node_id>> >>, NoText,
             << Elem("operator", <<>>, <<operator.name>>, <<>>),
                Elem("sources", <<>>, NoText, SourceElements(last_node_id)),
                _add_dict_into_element(
                    Elem("parameters",
                         << <<"class", "com.bc.ceres.binding.dom.XppDomElement">> >>,
                         NoText, <<>>),
                    operator.parameters) >>))

\* _isinstance_by_name
_isinstance_by_name(obj, class_name) == obj.cls = class_name

\* suffix of the idx-th (0-based) read node id, process line 296
ReadSuffix(idx) == IF idx # 0 THEN "(" \o ToString(idx + 1) \o ")" ELSE ""

\* ------------------------------------------------------- input domains
RECURSIVE SeqsUpTo(_, _)
SeqsUpTo(S, n) ==
    IF n = 0 THEN {<<>>}
    ELSE LET shorter == SeqsUpTo(S, n - 1)
         IN shorter \cup {Append(s, x) : s \in shorter, x \in S}

\* operators a caller may put in a chain
ChainOps == {SubsetOp, ReadOp(Source(1)), WriteOp("/tmp/mid.dim", BEAM_DIMAP)}
Chains   == SeqsUpTo(ChainOps, MaxChain)

\* the input argument of process: the class of the object and, for a
\* collection, its items (for a single product, the product itself)
SingleInput(p) == [cls |-> "SnapProduct", items |-> <<p>>]
TupleInput(ps) == [cls |-> "tuple", items |-> ps]
Inputs ==
    {SingleInput(Source(1))}
    \cup {TupleInput([i \in 1..n |-> Source(i)]) : n \in 0..MaxSources}
    \cup {TupleInput(<<Source(1), NonSource>>),
          [cls |-> "list", items |-> <<Source(1)>>],
          [cls |-> "str", items |-> <<>>]}

\* the smaller domains used when invocations are repeated
RerunChains == SeqsUpTo({SubsetOp}, 1)
RerunInputs == {SingleInput(Source(1)), [cls |-> "str", items |-> <<>>]}

OutputPaths == {PyStr("/tmp/out.dim"), PyUnconvertible}
LogPaths    == {PyNone, PyStr("run.log"), PyUnconvertible}

\* what the external processor prints
ProcOutputs == {[out |-> "gpt-out", err |-> "gpt-err"],
                [out |-> "", err |-> "gpt-err2"]}
\* how subprocess.run ends
Outcomes == {"ok", "nonzero", "notfound", "permission"}
ENOENT_strerror == "No such file or directory"
ErrorMarker == "error!\n"

\* ------------------------------------------------------- state
VARIABLES
    clock,        \* datetime.now(), in microseconds
    xml_path,     \* self.__xml_path ("" : no Sequential constructed yet)
    operators,    \* self.__operators
    pc,           \* position of the process invocation
    input,        \* arguments of the current/last invocation
    output_path,
    log_path,
    root,         \* the graph document
    last_node_id,
    opIdx,        \* index of the next operator of the for loop
    outcome,      \* how run(...) ended ("none" : not ended)
    proc,         \* what the external process printed
    stdout,
    stderr,
    exc,          \* exception that left process ("none" : none)
    runCount,     \* calls of run(...) in this invocation
    wrote,        \* tree.write done in this invocation
    logWritten,   \* log file written in this invocation
    fs,           \* graph artifacts on disk
    logfile,      \* content of the log file, <<>> when absent
    runs,         \* invocations started
    sameArgs,     \* this invocation has the arguments of the previous one
    names         \* artifact names written, one entry per tree.write

vars == <<clock, xml_path, operators, pc, input, output_path, log_path, root,
          last_node_id, opIdx, outcome, proc, stdout, stderr, exc, runCount,
          wrote, logWritten, fs, logfile, runs, sameArgs, names>>

instVars == <<xml_path, operators>>
argVars  == <<input, output_path, log_path>>
runVars  == <<outcome, proc, stdout, stderr, runCount>>
diskVars == <<fs, logfile>>
histVars == <<runs, sameArgs, names>>

NoProc == [out |-> "", err |-> ""]
Ended == {"idle", "returned", "raised"}

Init ==
    /\ clock = 0
    /\ xml_path = ""
    /\ operators = <<>>
    /\ pc = "idle"
    /\ input = [cls |-> "str", items |-> <<>>]
    /\ output_path = PyNone
    /\ log_path = PyNone
    /\ root = _blank_graph_xml
    /\ last_node_id = IdNone
    /\ opIdx = 1
    /\ outcome = "none"
    /\ proc = NoProc
    /\ stdout = ""
    /\ stderr = ""
    /\ exc = "none"
    /\ runCount = 0
    /\ wrote = FALSE
    /\ logWritten = FALSE
    /\ fs = {}
    /\ logfile = <<>>
    /\ runs = 0
    /\ sameArgs = FALSE
    /\ names = <<>>

\* the clock advances between two readings; only __init__ reads it
Tick(maxRuns) ==
    /\ pc \in Ended
    /\ runs < maxRuns
    /\ clock < MaxClock
    /\ clock' = clock + 1
    /\ UNCHANGED <<instVars, pc, argVars, root, last_node_id, opIdx, runVars,
                   exc, wrote, logWritten, diskVars, histVars>>

\* the artifact name of Sequential.__init__, lines 252-254
XmlPathAt(t) == "graph_" \o ToString(t) \o ".xml"

\* Sequential.__init__(*args): the artifact name is fixed here
Construct(chains, maxRuns) ==
    /\ pc \in Ended
    /\ runs < maxRuns
    /\ \E args \in chains :
        /\ xml_path' = XmlPathAt(clock)
        /\ operators' = args
    /\ UNCHANGED <<clock, pc, argVars, root, last_node_id, opIdx, runVars,
                   exc, wrote, logWritten, diskVars, histVars>>

\* raise out of process
Raise(e) ==
    /\ pc' = "raised"
    /\ exc' = e

\* process lines 275-286: path conversions and the blank document
ProcessStart(inputs, maxRuns) ==
    /\ pc \in Ended
    /\ xml_path # ""
    /\ runs < maxRuns
    /\ \E in \in inputs, out \in OutputPaths, log \in LogPaths :
        /\ input' = in
        /\ output_path' = out
        /\ log_path' = log
        /\ sameArgs' = (runs > 0 /\ in = input /\ out = output_path
                                 /\ log = log_path)
        /\ IF out.kind = "unconvertible" \/ log.kind = "unconvertible"
             THEN Raise("TypeError")
             ELSE pc' = "add_reads" /\ exc' = "none"
    /\ runs' = runs + 1
    /\ root' = _blank_graph_xml
    /\ last_node_id' = IdNone
    /\ opIdx' = 1
    /\ outcome' = "none"
    /\ proc' = NoProc
    /\ stdout' = ""
    /\ stderr' = ""
    /\ runCount' = 0
    /\ wrote' = FALSE
    /\ logWritten' = FALSE
    /\ UNCHANGED <<clock, instVars, diskVars, names>>

\* the read nodes of a tuple input, process lines 294-299
RECURSIVE AddReadNodes(_, _, _)
AddReadNodes(root_, items, idx) ==
    IF idx >= Len(items) THEN root_
    ELSE AddReadNodes(_add_node(root_, "Read" \o ReadSuffix(idx),
                                ReadOp(items[idx + 1]), IdNone),
                      items, idx + 1)

\* process lines 289-301
AddReads ==
    /\ pc = "add_reads"
    /\ IF _isinstance_by_name(input, "SnapProduct")
         THEN /\ root' = _add_node(root, "Read", ReadOp(input.items[1]), IdNone)
              /\ last_node_id' = IdStr("Read")
              /\ pc' = "add_ops"
              /\ exc' = exc
       ELSE IF /\ input.cls = "tuple"
               /\ \A i \in 1..Len(input.items) :
                     _isinstance_by_name(input.items[i], "SnapProduct")
         THEN /\ root' = AddReadNodes(root, input.items, 0)
              /\ last_node_id' =
                    IdList([i \in 1..Len(input.items) |->
                               "Read" \o ReadSuffix(i - 1)])
              /\ pc' = "add_ops"
              /\ exc' = exc
       ELSE /\ Raise("TypeError")
            /\ UNCHANGED <<root, last_node_id>>
    /\ UNCHANGED <<clock, instVars, argVars, opIdx, runVars, wrote,
                   logWritten, diskVars, histVars>>

\* one iteration of the loop over self.__operators, process lines 306-308
AddOperator ==
    /\ pc = "add_ops"
    /\ opIdx <= Len(operators)
    /\ root' = _add_node(root, operators[opIdx].name, operators[opIdx],
                         last_node_id)
    /\ last_node_id' = IdStr(operators[opIdx].name)
    /\ opIdx' = opIdx + 1
    /\ UNCHANGED <<clock, instVars, pc, argVars, runVars, exc, wrote,
                   logWritten, diskVars, histVars>>

\* process line 312
AddWrite ==
    /\ pc = "add_ops"
    /\ opIdx > Len(operators)
    /\ root' = _add_node(root, "Write", WriteOp(output_path.text, BEAM_DIMAP),
                         last_node_id)
    /\ pc' = "save"
    /\ UNCHANGED <<clock, instVars, argVars, last_node_id, opIdx, runVars,
                   exc, wrote, logWritten, diskVars, histVars>>

\* process lines 316-317: tree.write(self.__xml_path)
SaveGraph ==
    /\ pc = "save"
    /\ fs' = fs \cup {xml_path}
    /\ wrote' = TRUE
    /\ names' = Append(names, [name |-> xml_path, same |-> sameArgs])
    /\ pc' = "run"
    /\ UNCHANGED <<clock, instVars, argVars, root, last_node_id, opIdx,
                   runVars, exc, logWritten, logfile, runs, sameArgs>>

\* run((gpt, xml_path), ...) is called, process lines 323 and 358
Invoke ==
    /\ pc = "run"
    /\ runCount' = runCount + 1
    /\ pc' = "executing"
    /\ UNCHANGED <<clock, instVars, argVars, root, last_node_id, opIdx,
                   outcome, proc, stdout, stderr, exc, wrote, logWritten,
                   diskVars, histVars>>

\* a captured run that goes back to the invocation after a failure
CapturedResult_Retry ==
    /\ pc = "executing"
    /\ log_path.kind = "str"
    /\ \E o \in Outcomes, p \in ProcOutputs :
        /\ outcome' = o
        /\ proc' = IF o \in {"ok", "nonzero"} THEN p ELSE NoProc
        /\ stdout' = IF o = "ok" THEN p.out ELSE ErrorMarker
        /\ stderr' = IF o = "ok" THEN p.err ELSE ""
        /\ pc' = IF o = "ok" THEN "log" ELSE "run"
        /\ exc' = exc
    /\ UNCHANGED <<clock, instVars, argVars, root, last_node_id, opIdx,
                   runCount, wrote, logWritten, diskVars, histVars>>

\* the captured run ends, process lines 321-346
CapturedResult ==
    /\ pc = "executing"
    /\ log_path.kind = "str"
    /\ \E o \in Outcomes, p \in ProcOutputs :
        /\ outcome' = o
        /\ proc' = IF o \in {"ok", "nonzero"} THEN p ELSE NoProc
        /\ IF o = "ok"
             THEN /\ stdout' = p.out
                  /\ stderr' = p.err
                  /\ pc' = "log"
                  /\ exc' = exc
           ELSE IF o = "nonzero"
             \* CalledProcessError.output is the captured standard output
             THEN /\ stdout' = ErrorMarker
                  /\ stderr' = p.out
                  /\ pc' = "log"
                  /\ exc' = exc
           ELSE IF o = "notfound"
             THEN /\ stdout' = ErrorMarker
                  /\ stderr' = ENOENT_strerror
                  /\ pc' = "log"
                  /\ exc' = exc
           \* any other exception has no attribute output
           ELSE /\ stdout' = ErrorMarker
                /\ stderr' = stderr
                /\ Raise("AttributeError")
    /\ UNCHANGED <<clock, instVars, argVars, root, last_node_id, opIdx,
                   runCount, wrote, logWritten, diskVars, histVars>>

\* process lines 350-355
WriteLog ==
    /\ pc = "log"
    /\ logfile' = <<"Output:\n", stdout, "ERROR:\n", stderr>>
    /\ logWritten' = TRUE
    /\ pc' = "unlink"
    /\ UNCHANGED <<clock, instVars, argVars, root, last_node_id, opIdx,
                   runVars, exc, wrote, fs, histVars>>

\* the streamed run ends, process line 358 (no check=True, nothing caught)
StreamedResult ==
    /\ pc = "executing"
    /\ log_path.kind = "none"
    /\ \E o \in Outcomes, p \in ProcOutputs :
        /\ outcome' = o
        /\ proc' = IF o \in {"ok", "nonzero"} THEN p ELSE NoProc
        /\ IF o \in {"ok", "nonzero"}
             THEN pc' = "unlink" /\ exc' = exc
           ELSE IF o = "notfound"
             THEN Raise("FileNotFoundError")
           ELSE Raise("PermissionError")
    /\ UNCHANGED <<clock, instVars, argVars, root, last_node_id, opIdx,
                   stdout, stderr, runCount, wrote, logWritten, diskVars,
                   histVars>>

\* process line 362
Unlink ==
    /\ pc = "unlink"
    /\ fs' = fs \ {xml_path}
    /\ pc' = "returned"
    /\ UNCHANGED <<clock, instVars, argVars, root, last_node_id, opIdx,
                   runVars, exc, wrote, logWritten, logfile, histVars>>

\* one invocation on a freshly constructed orchestrator, all chains and inputs
Next ==
    \/ Tick(1)
    \/ Construct(Chains, 1)
    \/ ProcessStart(Inputs, 1)
    \/ AddReads
    \/ AddOperator
    \/ AddWrite
    \/ SaveGraph
    \/ Invoke
    \/ CapturedResult
    \/ WriteLog
    \/ StreamedResult
    \/ Unlink

Spec == Init /\ [][Next]_vars

\* repeated invocations, on the same orchestrator or on a new one
NextRerun ==
    \/ Tick(MaxRuns)
    \/ Construct(RerunChains, MaxRuns)
    \/ ProcessStart(RerunInputs, MaxRuns)
    \/ AddReads
    \/ AddOperator
    \/ AddWrite
    \/ SaveGraph
    \/ Invoke
    \/ CapturedResult
    \/ WriteLog
    \/ StreamedResult
    \/ Unlink

SpecRerun == Init /\ [][NextRerun]_vars

\* ------------------------------------------------------- reading a document
Attr(e, name) ==
    LET i == CHOOSE k \in 1..Len(e.attrib) : e.attrib[k][1] = name
    IN e.attrib[i][2]
IsNode(e) == e.tag = "node"
Nodes(r) == SelectSeq(r.children, IsNode)
NodeId(n) == Attr(n, "id")
NodeOperator(n) == n.children[1].text[1]
NodeSources(n) == n.children[2].children
NodeParameters(n) == n.children[3]
SourceTags(n) == [i \in 1..Len(NodeSources(n)) |-> NodeSources(n)[i].tag]
Refids(n) == [i \in 1..Len(NodeSources(n)) |-> Attr(NodeSources(n)[i], "refid")]

\* the conventions as the specification writes them
ExpectedReadIds == <<"Read", "Read(2)", "Read(3)", "Read(4)", "Read(5)">>
ExpectedSourceTags == <<"sourceProduct", "sourceProduct.1", "sourceProduct.2",
                        "sourceProduct.3", "sourceProduct.4">>

\* number of sources of the accepted input
NSources == IF input.cls = "SnapProduct" THEN 1 ELSE Len(input.items)
\* the document is complete and the invocation is still going on
DocBuilt == pc \in {"save", "run", "executing", "log", "unlink"}
InProcess == pc \notin Ended
Captured == log_path.kind = "str"
\* the input shapes the specification admits
NonEmptySources(in) ==
    \/ in.cls = "SnapProduct"
    \/ /\ in.cls \in {"tuple", "list"}
       /\ Len(in.items) >= 1
       /\ \A i \in 1..Len(in.items) : in.items[i].cls = "SnapProduct"

\* the descriptor the i-th node of the document was built from
Descriptor(i) ==
    IF i <= NSources THEN ReadOp(input.items[i])
    ELSE IF i <= NSources + Len(operators) THEN operators[i - NSources]
    ELSE WriteOp(output_path.text, BEAM_DIMAP)

\* ------------------------------------------------------- claims

\* C1: for N >= 1 sources and every operator chain, the built document has
\* exactly N read nodes, added first, with ids Read, Read(2), ..., Read(N),
\* and exactly one Write node, added last, whose predecessor is the last
\* chain operator, or the read node(s) when the chain is empty.
C1_ReadsThenSingleWrite ==
    (DocBuilt /\ NSources >= 1) =>
        LET ns == Nodes(root)
            N  == NSources
        IN /\ Len(ns) = N + Len(operators) + 1
           /\ \A i \in 1..N : /\ NodeId(ns[i]) = ExpectedReadIds[i]
                              /\ NodeOperator(ns[i]) = "Read"
           /\ Cardinality({i \in 1..Len(ns) : NodeOperator(ns[i]) = "Read"}) = N
           /\ Cardinality({i \in 1..Len(ns) : NodeId(ns[i]) = "Write"}) = 1
           /\ NodeId(ns[Len(ns)]) = "Write"
           /\ Refids(ns[Len(ns)]) =
                 IF operators = <<>> THEN SubSeq(ExpectedReadIds, 1, N)
                 ELSE <<operators[Len(operators)].name>>

\* C2: no two node elements of a document carry the same id.
C2_NodeIdsUnique ==
    LET ns == Nodes(root)
    IN \A i, j \in 1..Len(ns) : i # j => NodeId(ns[i]) # NodeId(ns[j])

\* C3: a key whose value is None has no child element in the serialized
\* parameters, at any nesting level; the Read node has neither a bandNames
\* nor a maskNames element.
RECURSIVE AbsentKeysSkipped(_, _)
AbsentKeysSkipped(element, dict_) ==
    \A k \in 1..Len(dict_) :
        LET key == dict_[k].key
            val == dict_[k].value
        IN \A c \in 1..Len(element.children) :
              element.children[c].tag = key =>
                 /\ val.kind # "none"
                 /\ val.kind = "dict" =>
                      AbsentKeysSkipped(element.children[c], val.items)

C3_AbsentKeysOmitted ==
    InProcess =>
        LET ns == Nodes(root)
        IN \A i \in 1..Len(ns) :
              /\ AbsentKeysSkipped(NodeParameters(ns[i]), Descriptor(i).parameters)
              /\ NodeOperator(ns[i]) = "Read" =>
                    \A c \in 1..Len(NodeParameters(ns[i]).children) :
                        NodeParameters(ns[i]).children[c].tag
                            \notin {"bandNames", "maskNames"}

\* C4: in captured mode no failure of the external invocation leaves process
\* as an exception: stdout becomes the marker, the log is written and process
\* returns (stated for the inputs the specification admits).
C4_CapturedNeverRaises ==
    (Captured /\ NonEmptySources(input) /\ outcome \notin {"none", "ok"}) =>
        /\ pc # "raised"
        /\ stdout = ErrorMarker
        /\ pc = "returned" => logWritten

\* C5: no invocation that wrote the artifact ends, by return or by exception,
\* with the artifact still on disk (stated for the inputs the specification
\* admits).
C5_ArtifactDeleted ==
    (pc \in {"returned", "raised"} /\ wrote /\ NonEmptySources(input))
        => xml_path \notin fs

\* C6: two invocations with identical arguments write two distinct artifact
\* names, on the same orchestrator or on two.
C6_DistinctArtifactNames ==
    \A i \in 2..Len(names) :
        names[i].same => names[i].name # names[i - 1].name

\* C7: process accepts only a single source or a non-empty collection of
\* sources, so a serialized document has at least one read node and a Write
\* node with at least one predecessor.
C7_OnlyNonEmptySources ==
    /\ (pc \notin {"idle", "add_reads"} /\ exc # "TypeError")
          => NonEmptySources(input)
    /\ (wrote /\ InProcess) =>
          LET ns == Nodes(root)
          IN /\ \E i \in 1..Len(ns) : NodeId(ns[i]) = "Read"
             /\ Len(NodeSources(ns[Len(ns)])) >= 1

\* C8: the chain operators are added in the given order after the read
\* nodes, each under its operator's name; the first refers to the read nodes
\* in input order through sourceProduct, sourceProduct.1, ..., each later one
\* to its predecessor through the single reference sourceProduct; every
\* refid is the id of a node added earlier.
C8_ChainOrderAndReferences ==
    (InProcess /\ pc # "add_reads") =>
        LET ns == Nodes(root)
            N  == NSources
        IN /\ Len(ns) = IF DocBuilt THEN N + Len(operators) + 1
                        ELSE N + opIdx - 1
           /\ \A i \in 1..Len(operators) :
                 N + i <= Len(ns) =>
                    /\ NodeId(ns[N + i]) = operators[i].name
                    /\ NodeOperator(ns[N + i]) = operators[i].name
                    /\ IF i = 1
                         THEN /\ SourceTags(ns[N + i])
                                    = SubSeq(ExpectedSourceTags, 1, N)
                              /\ Refids(ns[N + i])
                                    = SubSeq(ExpectedReadIds, 1, N)
                         ELSE /\ SourceTags(ns[N + i]) = <<"sourceProduct">>
                              /\ Refids(ns[N + i]) = <<operators[i - 1].name>>
           /\ \A k \in 1..Len(ns) : \A r \in 1..Len(Refids(ns[k])) :
                 \E e \in 1..(k - 1) : NodeId(ns[e]) = Refids(ns[k])[r]

\* a two-operator chain fed by two sources has been built
C8_Witness ==
    /\ pc = "save"
    /\ Len(operators) = 2
    /\ input.cls = "tuple"
    /\ Len(input.items) = 2

\* C9: the log is written exactly when log_path is given; it holds Output:,
\* the captured stdout, ERROR:, the captured stderr; after a handled failure
\* the Output section is the marker and the ERROR section the diagnostic text
\* (the process's standard error for a non-zero exit, the OS error text for
\* a missing executable).
C9_LogContent ==
    /\ pc = "returned" => (logWritten <=> Captured)
    /\ (logWritten /\ NonEmptySources(input)) =>
          logfile = << "Output:\n",
                       IF outcome = "ok" THEN proc.out ELSE ErrorMarker,
                       "ERROR:\n",
                       IF outcome \in {"ok", "nonzero"} THEN proc.err
                       ELSE ENOENT_strerror >>

\* the phases of the specification, read off the position in process
Phase ==
    CASE pc \in {"add_reads", "add_ops", "save"} -> "BUILDING"
      [] pc = "run" -> "SERIALIZED"
      [] pc \in {"executing", "log"} -> "EXECUTING"
      [] pc = "unlink" -> IF Captured THEN "LOGGED" ELSE "STREAMED"
      [] pc = "returned" -> "CLEANED"
      [] pc = "raised" -> "RAISED"
      [] OTHER -> "NONE"

PhaseOrder ==
    {<<"BUILDING", "SERIALIZED">>, <<"SERIALIZED", "EXECUTING">>,
     <<"EXECUTING", "LOGGED">>, <<"EXECUTING", "STREAMED">>,
     <<"LOGGED", "CLEANED">>, <<"STREAMED", "CLEANED">>,
     <<"BUILDING", "RAISED">>, <<"EXECUTING", "RAISED">>}
    \cup {<<a, b>> : a \in {"NONE", "CLEANED", "RAISED"},
                     b \in {"BUILDING", "RAISED"}}

\* C10: an invocation goes through BUILDING, SERIALIZED, EXECUTING, LOGGED or
\* STREAMED, CLEANED in this order: the artifact is written once the Write
\* node is in the document, the processor is invoked after that and at most
\* once, the log is written after the invocation has ended, the artifact is
\* deleted after logging or streaming.
C10_PhaseOrder ==
    [][ /\ Phase' # Phase => <<Phase, Phase'>> \in PhaseOrder
        /\ (wrote' /\ ~wrote) =>
              /\ root' = root
              /\ Len(Nodes(root)) = NSources + Len(operators) + 1
              /\ NodeId(Nodes(root)[Len(Nodes(root))]) = "Write"
        /\ runCount' > runCount =>
              /\ wrote
              /\ xml_path \in fs
              /\ runCount = 0
        /\ (logWritten' /\ ~logWritten) =>
              /\ Captured
              /\ runCount = 1
              /\ outcome # "none"
        /\ (pc' = "returned" /\ pc # "returned") =>
              /\ xml_path \in fs
              /\ xml_path \notin fs'
              /\ runCount = 1
              /\ IF Captured THEN logWritten ELSE outcome \in {"ok", "nonzero"}
      ]_vars

\* a failed captured invocation has been logged and cleaned, not retried
C10_Witness ==
    /\ pc = "returned"
    /\ logWritten
    /\ outcome = "nonzero"
    /\ runCount = 1

====
